---- MODULE Spec2Model ----
(***************************************************************************)
(* The letter grid widget (src/index.tsx).  The file holds three variants  *)
(* of the ChromaGrid component:                                            *)
(*   "A"  lines   1-149  palette colours, fixed cell size 100              *)
(*   "B"  lines 150-320  random colour with complementary foreground,      *)
(*                       target size 160                                   *)
(*   "C"  lines 321-464  palette colours, target size 110                  *)
(* Arithmetic on cell sizes is exact: a cell size is the fraction          *)
(* <<numerator, denominator>>.                                             *)
(***************************************************************************)
EXTENDS Integers, Sequences, FiniteSets, TLC

VARIABLES
    variant,            \* which of the three components is running
    lifecycle,          \* "rendered" | "mounted" | "unmounted"
    listeners,          \* number of registrations of the regenerate callback on window 'resize'
    width, height,      \* window.innerWidth, window.innerHeight
    items,              \* useState<GridItem[]>
    gridConfig,         \* useState: A keeps cellSize only, B and C keep cols, rows, cellSize
    lastDims,           \* history: the locals cols, rows of the most recent regeneration
    isFullscreen,       \* useState(false)
    fullscreenElement,  \* document.fullscreenElement is non-null
    fsRequestPending,   \* a requestFullscreen() promise is not settled yet
    unhandledRejection, \* a rejected promise had no handler
    rngSeed, rngPos,    \* Math.random(): the generator's seed and the number of draws so far
    lastEvent,          \* history: the handler that ran last
    regens, clicks,     \* history: regenerations and clicks so far
    hexIn, hexOut,      \* getComplementaryColor applied on its own: argument and result
    \* The animated variant (scramble and reveal):
    phase,              \* "idle" | "scrambling" | "revealing" | "settled"
    fixedIndices,       \* the fixed set: indices excluded from scrambling
    scrambleInterval,   \* the handle kept for the scramble interval (0: none)
    revealTimeout,      \* the handle kept for the reveal timeout (0: none)
    activeIntervals,    \* the intervals the browser still runs
    activeTimeouts,     \* the timeouts the browser will still fire
    revealOrder,        \* the shuffled indices of the running reveal
    revealPos,          \* how many of them have been fixed
    timerSeq,           \* the last handle the browser gave out
    ticks               \* history: scramble ticks so far

vars == <<variant, lifecycle, listeners, width, height, items, gridConfig, lastDims,
          isFullscreen, fullscreenElement, fsRequestPending, unhandledRejection,
          rngSeed, rngPos, lastEvent, regens, clicks, hexIn, hexOut,
          phase, fixedIndices, scrambleInterval, revealTimeout, activeIntervals,
          activeTimeouts, revealOrder, revealPos, timerSeq, ticks>>

probeVars == <<hexIn, hexOut>>
animVars == <<phase, fixedIndices, scrambleInterval, revealTimeout, activeIntervals,
              activeTimeouts, revealOrder, revealPos, timerSeq, ticks>>

-----------------------------------------------------------------------------
(* Bounds of the model *)

NumSeeds == 2
RandRes == 20
MaxRegens == 2
MaxClicks == 1
MaxSizerWidth == 1200
MaxTicks == 2

Variants == {"A", "B", "C"}
Seeds == 0 .. (NumSeeds - 1)
\* Viewports of the state machine.  For each of them the exact rows below
\* agree with the rows Math.ceil computes on IEEE doubles: height*cols is
\* never a multiple of width unless width/cols is an integer.
ViewWidths == {110, 250}
ViewHeights == {100, 220}

-----------------------------------------------------------------------------
(* Math.random and the helpers built on it *)

\* The k-th draw of Math.random() is Random(seed, k) / RandRes, in [0, 1).
Random(seed, k) == (seed + k * (2 * seed + 3)) % RandRes

\* The(S) is the element of the one-element set S.  The({e(x) : x \in {d}})
\* is LET x == d IN e(x), with d evaluated once.
The(S) == CHOOSE r \in S : TRUE

\* Math.floor(Math.random() * n) for the k-th draw.
RandomIndex(seed, k, n) == (Random(seed, k) * n) \div RandRes

LETTERS == "ABCDEFGHIJKLMNOPQRSTUVWXYZ"

\* getRandomLetter: LETTERS[Math.floor(Math.random() * LETTERS.length)]
getRandomLetter(seed, k) ==
    LET n == RandomIndex(seed, k, Len(LETTERS)) IN SubSeq(LETTERS, n + 1, n + 1)

\* A slip: Math.floor where Math.ceil is meant.
FloorDiv(a, b) == a \div b

\* Math.ceil(a / b) for integers a >= 0, b > 0.
CeilDiv(a, b) == (a + b - 1) \div b

-----------------------------------------------------------------------------
(* Palette colours (variants A and C) *)

\* const PALETTE: variant A stores the bare hex digits, variant C the '#' form.
PALETTE(v) ==
    IF v = "A" THEN <<"ffbe0b", "fb5607", "ff006e", "8338ec", "3a86ff">>
    ELSE <<"#ffbe0b", "#fb5607", "#ff006e", "#8338ec", "#3a86ff">>

\* The loop `while (fgIdx === bgIdx) fgIdx = Math.floor(Math.random() * n)`:
\* the foreground index that leaves the loop and the next draw position.
\* A slip: the loop is dropped and the first draw is kept.
ResampleNoLoop(seed, k, n, bgIdx, fgIdx) == [idx |-> fgIdx, pos |-> k]

RECURSIVE Resample(_, _, _, _, _)
Resample(seed, k, n, bgIdx, fgIdx) ==
    IF fgIdx = bgIdx
    THEN Resample(seed, k + 1, n, bgIdx, RandomIndex(seed, k, n))
    ELSE [idx |-> fgIdx, pos |-> k]

\* getPairFromPalette (variant A): draws start at position k.
getPairFromPalette(seed, k) ==
    LET n == Len(PALETTE("A"))
        bgIdx == RandomIndex(seed, k, n)
    IN The({[bgColor |-> "#" \o PALETTE("A")[bgIdx + 1],
             fgColor |-> "#" \o PALETTE("A")[fg.idx + 1],
             pos |-> fg.pos] :
            fg \in {Resample(seed, k + 2, n, bgIdx, RandomIndex(seed, k + 1, n))}})

\* getUniqueColors (variant C).
getUniqueColors(seed, k) ==
    LET n == Len(PALETTE("C"))
        bgIndex == RandomIndex(seed, k, n)
    IN The({[bgColor |-> PALETTE("C")[bgIndex + 1],
             fgColor |-> PALETTE("C")[fg.idx + 1],
             pos |-> fg.pos] :
            fg \in {Resample(seed, k + 2, n, bgIndex, RandomIndex(seed, k + 1, n))}})

-----------------------------------------------------------------------------
(* Hex colours and the complementary colour (variant B) *)

HexDigits == "0123456789abcdef"
HexDigit(d) == SubSeq(HexDigits, d + 1, d + 1)
HexVal(c) == CHOOSE d \in 0 .. 15 : HexDigit(d) = c

\* Number.prototype.toString(16)
RECURSIVE toString16(_)
toString16(n) ==
    IF n < 16 THEN HexDigit(n) ELSE toString16(n \div 16) \o HexDigit(n % 16)

\* String.prototype.padStart(len, '0')
RECURSIVE padStart(_, _)
padStart(s, len) == IF Len(s) >= len THEN s ELSE padStart("0" \o s, len)

\* parseInt(s, 16) on a string of hex digits
RECURSIVE parseInt16(_)
parseInt16(s) ==
    IF Len(s) = 0 THEN 0
    ELSE 16 * parseInt16(SubSeq(s, 1, Len(s) - 1)) + HexVal(SubSeq(s, Len(s), Len(s)))

\* Math.floor(Math.random() * 16777215)
HexRange == 16777215

\* getRandomHexColor
getRandomHexColor(seed, k) ==
    "#" \o padStart(toString16((Random(seed, k) * HexRange) \div RandRes), 6)

\* The three channels of '#rrggbb'.
Channels(hex) ==
    The({[r |-> parseInt16(SubSeq(color, 1, 2)),
          g |-> parseInt16(SubSeq(color, 3, 4)),
          b |-> parseInt16(SubSeq(color, 5, 6))] :
         color \in {SubSeq(hex, 2, Len(hex))}})      \* hex.replace('#', '')

\* (r * 299 + g * 587 + b * 114), the brightness times 1000.
Brightness1000(c) == c.r * 299 + c.g * 587 + c.b * 114

Abs(x) == IF x < 0 THEN 0 - x ELSE x
Max(a, b) == IF a > b THEN a ELSE b
Min(a, b) == IF a < b THEN a ELSE b

ContrastThreshold == 50
BrightnessMid == 128
BoostOffset == 150

toHex(n) == padStart(toString16(n), 2)

\* A slip a refactoring could make: the boost branch is lost.
getComplementaryColorNoBoost(hex) ==
    LET c == Channels(hex)
    IN "#" \o toHex(255 - c.r) \o toHex(255 - c.g) \o toHex(255 - c.b)

\* The complement of the channels c: the inversion, or the boosted colour
\* when the inversion is too close in brightness.
ComplementOf(c) ==
    LET inv == [r |-> 255 - c.r, g |-> 255 - c.g, b |-> 255 - c.b]
        brightnessOriginal == Brightness1000(c)
        brightnessComp == Brightness1000(inv)
    IN IF Abs(brightnessOriginal - brightnessComp) < ContrastThreshold * 1000
       THEN IF brightnessOriginal > BrightnessMid * 1000
            THEN [r |-> Max(0, c.r - BoostOffset),
                  g |-> Max(0, c.g - BoostOffset),
                  b |-> Max(0, c.b - BoostOffset)]
            ELSE [r |-> Min(255, c.r + BoostOffset),
                  g |-> Min(255, c.g + BoostOffset),
                  b |-> Min(255, c.b + BoostOffset)]
       ELSE inv

\* getComplementaryColor
getComplementaryColor(hex) ==
    The({"#" \o toHex(comp.r) \o toHex(comp.g) \o toHex(comp.b) :
         comp \in {ComplementOf(c) : c \in {Channels(hex)}}})

-----------------------------------------------------------------------------
(* Grid sizer and cell generator *)

\* The target cell size: useState(100) in A, targetSize 160 in B and 110 in C.
targetSize(v) == IF v = "A" THEN 100 ELSE IF v = "B" THEN 160 ELSE 110

\* useState's initial grid configuration.
InitialConfig(v) ==
    IF v = "A" THEN [cellSize |-> <<100, 1>>]
    ELSE IF v = "B" THEN [cols |-> 0, rows |-> 0, cellSize |-> <<150, 1>>]
    ELSE [cols |-> 0, rows |-> 0, cellSize |-> <<100, 1>>]

\* The sizes generateGrid (A) and calculateGrid (B, C) compute for a viewport
\* W x H.  A keeps its cell size; B and C set cellSize = width / cols and
\* rows = Math.ceil(height / cellSize) = ceil(height * cols / width).
GridSize(v, W, H) ==
    IF v = "A"
    THEN [cols |-> CeilDiv(W, targetSize(v)),
          rows |-> CeilDiv(H, targetSize(v)),
          cellSize |-> <<targetSize(v), 1>>]
    ELSE LET cols == CeilDiv(W, targetSize(v))
         IN [cols |-> cols, rows |-> CeilDiv(H * cols, W), cellSize |-> <<W, cols>>]

\* A slip: the identifier is the index alone.
CellIdIndexOnly(i, k) == <<i, 0>>

\* id: `${i}-${Math.random()}`.  The drawn double is identified by its draw
\* position k: two draws are taken to give two different doubles.
CellId(i, k) == <<i, k>>

\* The colour pair of a new or resampled cell, drawn from position k on.
ColorPair(v, seed, k) ==
    IF v = "A" THEN getPairFromPalette(seed, k)
    ELSE IF v = "C" THEN getUniqueColors(seed, k)
    ELSE The({[bgColor |-> bgColor, fgColor |-> getComplementaryColor(bgColor),
               pos |-> k + 1] :
              bgColor \in {getRandomHexColor(seed, k)}})

\* The callback of Array.from in generateGrid / calculateGrid: cell i, drawn
\* from position k on (colour pair, then the id, then the letter).
NewCell(v, i, seed, k) ==
    The({[cell |-> [id |-> CellId(i, pair.pos),
                    letter |-> getRandomLetter(seed, pair.pos + 1),
                    bgColor |-> pair.bgColor,
                    fgColor |-> pair.fgColor],
          pos |-> pair.pos + 2] :
         pair \in {ColorPair(v, seed, k)}})

\* Array.from({ length: total }, ...) restricted to the cells lo .. hi-1,
\* drawn from position k on.  The cells are made in index order, each from
\* the draw position the one before left; the range is split in halves only
\* to keep the evaluation shallow.
RECURSIVE BuildRange(_, _, _, _, _)
BuildRange(v, lo, hi, seed, k) ==
    IF lo >= hi THEN [items |-> <<>>, pos |-> k]
    ELSE IF hi = lo + 1
    THEN The({[items |-> <<c.cell>>, pos |-> c.pos] : c \in {NewCell(v, lo, seed, k)}})
    ELSE The({The({[items |-> left.items \o right.items, pos |-> right.pos] :
                   right \in {BuildRange(v, (lo + hi) \div 2, hi, seed, left.pos)}}) :
              left \in {BuildRange(v, lo, (lo + hi) \div 2, seed, k)}})

\* The new list appended to acc.
BuildItems(v, total, seed, k, acc) ==
    The({[items |-> acc \o built.items, pos |-> built.pos] :
         built \in {BuildRange(v, 0, total, seed, k)}})

\* A slip: the new cells are appended to the old list.
RegeneratedAppending(v, W, H, seed, st) ==
    LET size == GridSize(v, W, H)
        built == BuildItems(v, size.cols * size.rows, seed, st.pos, st.items)
    IN [items |-> built.items,
        gridConfig |-> IF v = "A" THEN st.gridConfig ELSE size,
        dims |-> [cols |-> size.cols, rows |-> size.rows, width |-> W, height |-> H],
        pos |-> built.pos,
        regens |-> st.regens + 1]

\* The component state one run of generateGrid / calculateGrid leaves.
\* st = [items, gridConfig, dims, pos, regens].
Regenerated(v, W, H, seed, st) ==
    The({The({[items |-> built.items,
               gridConfig |-> IF v = "A" THEN st.gridConfig ELSE size,
               dims |-> [cols |-> size.cols, rows |-> size.rows,
                         width |-> W, height |-> H],
               pos |-> built.pos,
               regens |-> st.regens + 1] :
              built \in {BuildItems(v, size.cols * size.rows, seed, st.pos, <<>>)}}) :
         size \in {GridSize(v, W, H)}})

\* The resize event calls every registered listener in turn.
RECURSIVE Dispatched(_, _, _, _, _, _)
Dispatched(n, v, W, H, seed, st) ==
    IF n = 0 THEN st
    ELSE The({Dispatched(n - 1, v, W, H, seed, next) :
              next \in {Regenerated(v, W, H, seed, st)}})

\* A slip: the click handler resamples the cell after the clicked one too.
ClickedItemsNeighbour(v, prev, index, seed, k) ==
    LET pair == ColorPair(v, seed, k)
        letter == getRandomLetter(seed, pair.pos)
    IN [items |-> [j \in 1 .. Len(prev) |->
                      IF j = index + 1 \/ j = index + 2
                      THEN [id |-> prev[j].id, letter |-> letter,
                            bgColor |-> pair.bgColor, fgColor |-> pair.fgColor]
                      ELSE prev[j]],
        pos |-> pair.pos + 1]

\* The updater of handleCellClick: next = [...prev]; next[index] = {...next[index],
\* letter, bgColor, fgColor}.
ClickedItems(v, prev, index, seed, k) ==
    The({[items |-> [prev EXCEPT ![index + 1] =
                        [id |-> prev[index + 1].id,
                         letter |-> getRandomLetter(seed, pair.pos),
                         bgColor |-> pair.bgColor,
                         fgColor |-> pair.fgColor]],
          pos |-> pair.pos + 1] :
         pair \in {ColorPair(v, seed, k)}})

-----------------------------------------------------------------------------
(* The component as a state machine *)

NoEvent == [op |-> "init", index |-> 0 - 1]

\* Nothing of the animation exists in variants A, B and C.
AnimIdle ==
    /\ phase = "idle"
    /\ fixedIndices = {}
    /\ scrambleInterval = 0
    /\ revealTimeout = 0
    /\ activeIntervals = {}
    /\ activeTimeouts = {}
    /\ revealOrder = <<>>
    /\ revealPos = 0
    /\ timerSeq = 0
    /\ ticks = 0

ProbeIdle == hexIn = "none" /\ hexOut = "none"

\* The component as first rendered, before its effect has run.
Rendered ==
    /\ lifecycle = "rendered"
    /\ listeners = 0
    /\ items = <<>>
    /\ gridConfig = InitialConfig(variant)
    /\ lastDims = [cols |-> 0, rows |-> 0, width |-> 0, height |-> 0]
    /\ isFullscreen = FALSE
    /\ fullscreenElement = FALSE
    /\ fsRequestPending = FALSE
    /\ unhandledRejection = FALSE
    /\ rngPos = 0
    /\ lastEvent = NoEvent
    /\ regens = 0
    /\ clicks = 0

Init ==
    /\ variant \in Variants
    /\ width \in ViewWidths
    /\ height \in ViewHeights
    /\ rngSeed \in Seeds
    /\ Rendered
    /\ ProbeIdle
    /\ AnimIdle

\* The part of the state a regeneration rewrites.
Current == [items |-> items, gridConfig |-> gridConfig, dims |-> lastDims,
            pos |-> rngPos, regens |-> regens]

Install(st) ==
    /\ items' = st.items
    /\ gridConfig' = st.gridConfig
    /\ lastDims' = st.dims
    /\ rngPos' = st.pos
    /\ regens' = st.regens

\* window.addEventListener('resize', ...)
ListenersAfterMount(n) == n + 1

\* A slip: the cleanup is missing.
ListenersAfterUnmountKept(n) == n

\* window.removeEventListener('resize', ...)
ListenersAfterUnmount(n) == IF n > 0 THEN n - 1 ELSE 0

\* useEffect: the first regeneration, then the subscription.
Mount ==
    /\ lifecycle = "rendered"
    /\ \E st \in {Regenerated(variant, width, height, rngSeed, Current)} : Install(st)
    /\ listeners' = ListenersAfterMount(listeners)
    /\ lifecycle' = "mounted"
    /\ lastEvent' = [op |-> "mount", index |-> 0 - 1]
    /\ UNCHANGED <<variant, width, height, isFullscreen, fullscreenElement,
                   fsRequestPending, unhandledRejection, rngSeed, clicks>>
    /\ UNCHANGED <<probeVars, animVars>>

\* The cleanup of the effect.
Unmount ==
    /\ lifecycle = "mounted"
    /\ listeners' = ListenersAfterUnmount(listeners)
    /\ lifecycle' = "unmounted"
    /\ lastEvent' = [op |-> "unmount", index |-> 0 - 1]
    /\ UNCHANGED <<variant, width, height, items, gridConfig, lastDims, isFullscreen,
                   fullscreenElement, fsRequestPending, unhandledRejection,
                   rngSeed, rngPos, regens, clicks>>
    /\ UNCHANGED <<probeVars, animVars>>

\* The window is resized to w x h and the resize event is dispatched.
Resize(w, h) ==
    /\ lifecycle # "rendered"
    /\ regens + listeners <= MaxRegens
    /\ width' = w
    /\ height' = h
    /\ \E st \in {Dispatched(listeners, variant, w, h, rngSeed, Current)} : Install(st)
    /\ lastEvent' = [op |-> "resize", index |-> 0 - 1]
    /\ UNCHANGED <<variant, lifecycle, listeners, isFullscreen, fullscreenElement,
                   fsRequestPending, unhandledRejection, rngSeed, clicks>>
    /\ UNCHANGED <<probeVars, animVars>>

\* onClick of the regenerate button.
ManualRegenerate ==
    /\ lifecycle = "mounted"
    /\ regens < MaxRegens
    /\ \E st \in {Regenerated(variant, width, height, rngSeed, Current)} : Install(st)
    /\ lastEvent' = [op |-> "regenerate", index |-> 0 - 1]
    /\ UNCHANGED <<variant, lifecycle, listeners, width, height, isFullscreen,
                   fullscreenElement, fsRequestPending, unhandledRejection,
                   rngSeed, clicks>>
    /\ UNCHANGED <<probeVars, animVars>>

\* onClick of the cell rendered at idx.
handleCellClick(index) ==
    /\ lifecycle = "mounted"
    /\ clicks < MaxClicks
    /\ index \in 0 .. (Len(items) - 1)
    /\ \E r \in {ClickedItems(variant, items, index, rngSeed, rngPos)} :
          /\ items' = r.items
          /\ rngPos' = r.pos
    /\ clicks' = clicks + 1
    /\ lastEvent' = [op |-> "click", index |-> index]
    /\ UNCHANGED <<variant, lifecycle, listeners, width, height, gridConfig, lastDims,
                   isFullscreen, fullscreenElement, fsRequestPending,
                   unhandledRejection, rngSeed, regens>>
    /\ UNCHANGED <<probeVars, animVars>>

\* A slip: the flag is inverted instead of set from the document's state.
FlagAfterToggleInverted(hasElement, flag) == ~flag

\* setIsFullscreen(true) in the branch without a fullscreen element,
\* setIsFullscreen(false) in the other (where document.exitFullscreen exists:
\* an element can only be in fullscreen through that API).
FlagAfterToggle(hasElement, flag) == IF ~hasElement THEN TRUE ELSE FALSE

toggleFullscreen ==
    /\ lifecycle = "mounted"
    /\ isFullscreen' = FlagAfterToggle(fullscreenElement, isFullscreen)
    /\ IF ~fullscreenElement
       THEN /\ fsRequestPending' = TRUE        \* requestFullscreen()
            /\ UNCHANGED fullscreenElement
       ELSE /\ fullscreenElement' = FALSE      \* exitFullscreen()
            /\ UNCHANGED fsRequestPending
    /\ lastEvent' = [op |-> "toggle", index |-> 0 - 1]
    /\ UNCHANGED <<variant, lifecycle, listeners, width, height, items, gridConfig,
                   lastDims, unhandledRejection, rngSeed, rngPos, regens, clicks>>
    /\ UNCHANGED <<probeVars, animVars>>

\* requestFullscreen().catch(...) in every variant.
RejectionCaught(v) == TRUE

\* The browser settles the pending request: granted, or rejected into the catch.
SettleFullscreenRequest(granted) ==
    /\ fsRequestPending
    /\ fsRequestPending' = FALSE
    /\ fullscreenElement' = (fullscreenElement \/ granted)
    /\ unhandledRejection' = (unhandledRejection \/ (~granted /\ ~RejectionCaught(variant)))
    /\ lastEvent' = [op |-> IF granted THEN "granted" ELSE "rejected", index |-> 0 - 1]
    /\ UNCHANGED <<variant, lifecycle, listeners, width, height, items, gridConfig,
                   lastDims, isFullscreen, rngSeed, rngPos, regens, clicks>>
    /\ UNCHANGED <<probeVars, animVars>>

\* The user leaves fullscreen with the browser's own control (Esc).
UserExitsFullscreen ==
    /\ fullscreenElement
    /\ fullscreenElement' = FALSE
    /\ lastEvent' = [op |-> "escape", index |-> 0 - 1]
    /\ UNCHANGED <<variant, lifecycle, listeners, width, height, items, gridConfig,
                   lastDims, isFullscreen, fsRequestPending, unhandledRejection,
                   rngSeed, rngPos, regens, clicks>>
    /\ UNCHANGED <<probeVars, animVars>>

Next ==
    \/ Mount
    \/ Unmount
    \/ \E w \in ViewWidths, h \in ViewHeights : Resize(w, h)
    \/ ManualRegenerate
    \/ \E index \in 0 .. (Len(items) - 1) : handleCellClick(index)
    \/ toggleFullscreen
    \/ \E granted \in BOOLEAN : SettleFullscreenRequest(granted)
    \/ UserExitsFullscreen

Spec == Init /\ [][Next]_vars

-----------------------------------------------------------------------------
(* The grid sizer on its own: one mount per viewport *)

\* Every width at height 1, the widths from 100 up at height 100 too, and
\* the viewport 1100 x 800.
SizerViewports ==
    {<<w, 1>> : w \in 1 .. MaxSizerWidth}
        \cup {<<w, 100>> : w \in 100 .. MaxSizerWidth}
        \cup {<<1100, 800>>}

SizerInit ==
    /\ variant \in Variants
    /\ \E vp \in SizerViewports : width = vp[1] /\ height = vp[2]
    /\ rngSeed = 0
    /\ Rendered
    /\ ProbeIdle
    /\ AnimIdle

SizerNext == Mount

SizerSpec == SizerInit /\ [][SizerNext]_vars

-----------------------------------------------------------------------------
(* getComplementaryColor on its own: one call per background *)

ProbeChannels == {0, 5, 57, 102, 127, 128, 129, 153, 161, 200, 250, 255}

HexOf(r, g, b) == "#" \o toHex(r) \o toHex(g) \o toHex(b)

ColorInit ==
    /\ variant = "B"
    /\ width = 110
    /\ height = 100
    /\ rngSeed = 0
    /\ Rendered
    /\ AnimIdle
    /\ hexIn \in {HexOf(r, g, b) : r \in ProbeChannels, g \in ProbeChannels, b \in ProbeChannels}
    /\ hexOut = "none"

ApplyComplementary ==
    /\ hexOut = "none"
    /\ hexOut' = getComplementaryColor(hexIn)
    /\ UNCHANGED <<variant, lifecycle, listeners, width, height, items, gridConfig,
                   lastDims, isFullscreen, fullscreenElement, fsRequestPending,
                   unhandledRejection, rngSeed, rngPos, lastEvent, regens, clicks,
                   hexIn, animVars>>

ColorNext == ApplyComplementary

ColorSpec == ColorInit /\ [][ColorNext]_vars

-----------------------------------------------------------------------------
(* The animated variant: scramble and reveal.  Its grid and its colours are *)
(* those of variant C; the timers follow the design of the animation.       *)

\* A slip: the old timer is left running.
CancelledNot(active, handle) == active

\* clearInterval(handle) / clearTimeout(handle)
Cancelled(active, handle) == {t \in active : t.handle # handle}

\* A slip: the scramble interval is not stopped when the reveal ends.
StoppedNot(active, handle) == active

\* clearInterval(handle) at the end of the reveal
Stopped(active, handle) == {t \in active : t.handle # handle}

\* Every index not in the fixed set gets a new letter and colour pair.
RECURSIVE Scrambled(_, _, _, _, _)
Scrambled(list, fixed, j, seed, k) ==
    IF j > Len(list) THEN [items |-> list, pos |-> k]
    ELSE IF (j - 1) \in fixed THEN Scrambled(list, fixed, j + 1, seed, k)
    ELSE The({Scrambled(r.items, fixed, j + 1, seed, r.pos) :
              r \in {ClickedItems("C", list, j - 1, seed, k)}})

\* Fisher-Yates: for i = n-1 down to 1, swap a[i] with a[floor(random * (i+1))].
RECURSIVE Shuffled(_, _, _, _)
Shuffled(a, i, seed, k) ==
    IF i < 1 THEN [order |-> a, pos |-> k]
    ELSE The({Shuffled([a EXCEPT ![i + 1] = a[j + 1], ![j + 1] = a[i + 1]],
                       i - 1, seed, k + 1) :
              j \in {RandomIndex(seed, k, i + 1)}})

\* A regeneration clears the fixed set, cancels both timers and arms them
\* again: the scramble interval and the delay before the reveal.
RestartCycle ==
    /\ fixedIndices' = {}
    /\ activeIntervals' = Cancelled(activeIntervals, scrambleInterval)
                              \cup {[handle |-> timerSeq + 1, kind |-> "scramble"]}
    /\ scrambleInterval' = timerSeq + 1
    /\ activeTimeouts' = Cancelled(activeTimeouts, revealTimeout)
                             \cup {[handle |-> timerSeq + 2, kind |-> "start"]}
    /\ revealTimeout' = timerSeq + 2
    /\ timerSeq' = timerSeq + 2
    /\ phase' = "scrambling"
    /\ revealOrder' = <<>>
    /\ revealPos' = 0
    /\ UNCHANGED ticks

\* Viewports of the animated variant: grids of 1, 2 and 6 cells.
AnimViewports == {<<110, 100>>, <<110, 220>>, <<250, 100>>}

AnimInit ==
    /\ variant = "C"
    /\ \E vp \in AnimViewports : width = vp[1] /\ height = vp[2]
    /\ rngSeed \in Seeds
    /\ Rendered
    /\ ProbeIdle
    /\ AnimIdle

AnimMount ==
    /\ lifecycle = "rendered"
    /\ \E st \in {Regenerated(variant, width, height, rngSeed, Current)} : Install(st)
    /\ RestartCycle
    /\ listeners' = ListenersAfterMount(listeners)
    /\ lifecycle' = "mounted"
    /\ lastEvent' = [op |-> "mount", index |-> 0 - 1]
    /\ UNCHANGED <<variant, width, height, isFullscreen, fullscreenElement,
                   fsRequestPending, unhandledRejection, rngSeed, clicks, probeVars>>

AnimResize(w, h) ==
    /\ lifecycle = "mounted"
    /\ regens < MaxRegens
    /\ width' = w
    /\ height' = h
    /\ \E st \in {Regenerated(variant, w, h, rngSeed, Current)} : Install(st)
    /\ RestartCycle
    /\ lastEvent' = [op |-> "resize", index |-> 0 - 1]
    /\ UNCHANGED <<variant, lifecycle, listeners, isFullscreen, fullscreenElement,
                   fsRequestPending, unhandledRejection, rngSeed, clicks, probeVars>>

AnimManualRegenerate ==
    /\ lifecycle = "mounted"
    /\ regens < MaxRegens
    /\ \E st \in {Regenerated(variant, width, height, rngSeed, Current)} : Install(st)
    /\ RestartCycle
    /\ lastEvent' = [op |-> "regenerate", index |-> 0 - 1]
    /\ UNCHANGED <<variant, lifecycle, listeners, width, height, isFullscreen,
                   fullscreenElement, fsRequestPending, unhandledRejection,
                   rngSeed, clicks, probeVars>>

\* One firing of a scramble interval.
ScrambleTick(t) ==
    /\ t \in activeIntervals
    /\ ticks < MaxTicks
    /\ \E r \in {Scrambled(items, fixedIndices, 1, rngSeed, rngPos)} :
          /\ items' = r.items
          /\ rngPos' = r.pos
    /\ ticks' = ticks + 1
    /\ lastEvent' = [op |-> "tick", index |-> 0 - 1]
    /\ UNCHANGED <<variant, lifecycle, listeners, width, height, gridConfig, lastDims,
                   isFullscreen, fullscreenElement, fsRequestPending,
                   unhandledRejection, rngSeed, regens, clicks, probeVars,
                   phase, fixedIndices, scrambleInterval, revealTimeout,
                   activeIntervals, activeTimeouts, revealOrder, revealPos, timerSeq>>

\* The initial delay has passed: shuffle the indices and schedule the first step.
RevealStart(t) ==
    /\ t \in activeTimeouts
    /\ t.kind = "start"
    /\ \E r \in {Shuffled([j \in 1 .. Len(items) |-> j - 1], Len(items) - 1,
                          rngSeed, rngPos)} :
          /\ revealOrder' = r.order
          /\ rngPos' = r.pos
    /\ revealPos' = 0
    /\ phase' = "revealing"
    /\ activeTimeouts' = (activeTimeouts \ {t})
                             \cup {[handle |-> timerSeq + 1, kind |-> "step"]}
    /\ revealTimeout' = timerSeq + 1
    /\ timerSeq' = timerSeq + 1
    /\ lastEvent' = [op |-> "revealStart", index |-> 0 - 1]
    /\ UNCHANGED <<variant, lifecycle, listeners, width, height, items, gridConfig,
                   lastDims, isFullscreen, fullscreenElement, fsRequestPending,
                   unhandledRejection, rngSeed, regens, clicks, probeVars,
                   fixedIndices, scrambleInterval, activeIntervals, ticks>>

\* One reveal step: the next index of the shuffle joins the fixed set; after
\* the last one the scramble interval is stopped.
RevealStep(t) ==
    /\ t \in activeTimeouts
    /\ t.kind = "step"
    /\ revealPos < Len(revealOrder)
    /\ fixedIndices' = fixedIndices \cup {revealOrder[revealPos + 1]}
    /\ revealPos' = revealPos + 1
    /\ IF revealPos + 1 = Len(revealOrder)
       THEN /\ activeIntervals' = Stopped(activeIntervals, scrambleInterval)
            /\ activeTimeouts' = activeTimeouts \ {t}
            /\ scrambleInterval' = 0
            /\ revealTimeout' = 0
            /\ phase' = "settled"
            /\ UNCHANGED timerSeq
       ELSE /\ activeTimeouts' = (activeTimeouts \ {t})
                                    \cup {[handle |-> timerSeq + 1, kind |-> "step"]}
            /\ revealTimeout' = timerSeq + 1
            /\ timerSeq' = timerSeq + 1
            /\ UNCHANGED <<activeIntervals, scrambleInterval, phase>>
    /\ lastEvent' = [op |-> "revealStep", index |-> revealOrder[revealPos + 1]]
    /\ UNCHANGED <<variant, lifecycle, listeners, width, height, items, gridConfig,
                   lastDims, isFullscreen, fullscreenElement, fsRequestPending,
                   unhandledRejection, rngSeed, rngPos, regens, clicks, probeVars,
                   revealOrder, ticks>>

\* A click resamples the cell and fixes it, whatever the phase.
AnimClick(index) ==
    /\ lifecycle = "mounted"
    /\ clicks < MaxClicks
    /\ index \in 0 .. (Len(items) - 1)
    /\ \E r \in {ClickedItems(variant, items, index, rngSeed, rngPos)} :
          /\ items' = r.items
          /\ rngPos' = r.pos
    /\ fixedIndices' = fixedIndices \cup {index}
    /\ clicks' = clicks + 1
    /\ lastEvent' = [op |-> "click", index |-> index]
    /\ UNCHANGED <<variant, lifecycle, listeners, width, height, gridConfig, lastDims,
                   isFullscreen, fullscreenElement, fsRequestPending,
                   unhandledRejection, rngSeed, regens, probeVars,
                   phase, scrambleInterval, revealTimeout, activeIntervals,
                   activeTimeouts, revealOrder, revealPos, timerSeq, ticks>>

AnimNext ==
    \/ AnimMount
    \/ \E vp \in AnimViewports : AnimResize(vp[1], vp[2])
    \/ AnimManualRegenerate
    \/ \E t \in activeIntervals : ScrambleTick(t)
    \/ \E t \in activeTimeouts : RevealStart(t)
    \/ \E t \in activeTimeouts : RevealStep(t)
    \/ \E index \in 0 .. (Len(items) - 1) : AnimClick(index)

AnimSpec == AnimInit /\ [][AnimNext]_vars

\* The browser fires every pending timeout.
FairAnimSpec ==
    /\ AnimInit /\ [][AnimNext]_vars
    /\ WF_vars(\E t \in activeTimeouts : RevealStart(t))
    /\ WF_vars(\E t \in activeTimeouts : RevealStep(t))

-----------------------------------------------------------------------------
(* Properties *)

Indices == 1 .. Len(items)
Ids(list) == {list[j].id : j \in 1 .. Len(list)}
IsRegeneration(op) == op \in {"mount", "resize", "regenerate"}

\* n = Math.ceil(a / b), said without the division.
IsCeil(n, a, b) == (n - 1) * b < a /\ a <= n * b

\* C1: in every reachable state the number of cells is columns*rows of the
\* most recent regeneration, which computed them from the viewport (the
\* window's size while the component is mounted), and a cell click never
\* changes the number of cells.
C1_CellCount ==
    /\ [](/\ Len(items) = lastDims.cols * lastDims.rows
          /\ lifecycle = "mounted" => lastDims.width = width /\ lastDims.height = height
          /\ lifecycle # "rendered" =>
                /\ IsCeil(lastDims.cols, lastDims.width, targetSize(variant))
                /\ IF variant = "A"
                   THEN IsCeil(lastDims.rows, lastDims.height, targetSize(variant))
                   ELSE /\ IsCeil(lastDims.rows, lastDims.height * lastDims.cols, lastDims.width)
                        /\ gridConfig.cols = lastDims.cols
                        /\ gridConfig.rows = lastDims.rows)
    /\ [][lastEvent'.op = "click" => Len(items') = Len(items)]_vars

C1_Witness ==
    /\ lastEvent.op = "click"
    /\ regens >= 2
    /\ Len(items) >= 2

PaletteColours == {"#ffbe0b", "#fb5607", "#ff006e", "#8338ec", "#3a86ff"}

\* C3: in the palette variants every cell of every reachable state has a
\* background different from its foreground, both among the five palette
\* colours.
C3_PaletteContrast ==
    variant \in {"A", "C"} =>
        \A j \in Indices :
            /\ items[j].bgColor # items[j].fgColor
            /\ items[j].bgColor \in PaletteColours
            /\ items[j].fgColor \in PaletteColours

C3_Witness ==
    /\ variant \in {"A", "C"}
    /\ lastEvent.op = "click"
    /\ regens >= 2
    /\ Len(items) >= 4

\* C4: for every background the foreground getComplementaryColor returns
\* differs from it in brightness (weights 299/587/114 per 1000) by at least
\* 50, or has all its channels at an extreme, 0 or 255.
C4_ComplementaryContrast ==
    hexOut # "none" =>
        LET bg == Channels(hexIn)
            fg == Channels(hexOut)
            bbg == bg.r * 299 + bg.g * 587 + bg.b * 114
            bfg == fg.r * 299 + fg.g * 587 + fg.b * 114
        IN \/ bbg - bfg >= 50 * 1000
           \/ bfg - bbg >= 50 * 1000
           \/ {fg.r, fg.g, fg.b} \subseteq {0, 255}

\* A mid grey, whose inversion is too close: the boost to white.
C4_Witness == hexIn = "#808080" /\ hexOut = "#ffffff"

\* C5: a click on the cell at index i resamples the letter and colours of
\* that entry only; the other entries, the entry's id, the length and order
\* of the list, the grid configuration and the fullscreen flag stay.
C5_ClickFrame ==
    [][lastEvent'.op = "click" =>
          LET i == lastEvent'.index + 1
          IN /\ i \in Indices
             /\ Len(items') = Len(items)
             /\ \A j \in Indices : j # i => items'[j] = items[j]
             /\ items'[i].id = items[i].id
             /\ Len(items'[i].letter) = 1
             /\ gridConfig' = gridConfig
             /\ lastDims' = lastDims
             /\ isFullscreen' = isFullscreen]_vars

C5_Witness ==
    /\ lastEvent.op = "click"
    /\ lastEvent.index >= 1
    /\ Len(items) >= 3

C9_ToggleInverts ==
    [][lastEvent'.op = "toggle" =>
          /\ isFullscreen' = ~isFullscreen
          /\ items' = items /\ gridConfig' = gridConfig
          /\ ~unhandledRejection']_vars

\* C9 amended: a rejected request is silent (no unhandled rejection, cells,
\* grid and flag untouched by the rejection), and an invocation of
\* toggleFullscreen sets isFullscreen to TRUE when the document has no
\* fullscreen element and to FALSE when it has one: the flag flips on a first
\* request even if that is rejected, and stays TRUE on the invocation after.
C9_ToggleFollowsDocument ==
    /\ [](~unhandledRejection)
    /\ [][lastEvent'.op = "toggle" =>
             /\ isFullscreen' = ~fullscreenElement
             /\ items' = items /\ gridConfig' = gridConfig]_vars
    /\ [][lastEvent'.op = "rejected" =>
             /\ isFullscreen' = isFullscreen /\ fullscreenElement' = fullscreenElement
             /\ items' = items /\ gridConfig' = gridConfig]_vars

\* The request was rejected: the flag says fullscreen, the document is not.
C9_Witness ==
    /\ lastEvent.op = "rejected"
    /\ isFullscreen
    /\ ~fullscreenElement

\* C10: while mounted exactly one resize listener is registered and every
\* resize event runs one full regeneration for the new viewport; after
\* teardown none is registered and a resize event changes nothing of the
\* component.
C10_ResizeSubscription ==
    /\ [](listeners = IF lifecycle = "mounted" THEN 1 ELSE 0)
    /\ [][(lastEvent'.op = "resize" /\ lifecycle = "mounted") =>
             /\ regens' = regens + 1
             /\ lastDims'.width = width' /\ lastDims'.height = height'
             /\ Len(items') = lastDims'.cols * lastDims'.rows
             /\ Ids(items') \cap Ids(items) = {}]_vars
    /\ [][(lastEvent'.op = "resize" /\ lifecycle = "unmounted") =>
             UNCHANGED <<items, gridConfig, lastDims, regens, rngPos, isFullscreen,
                         listeners, lifecycle>>]_vars

C10_Witness ==
    /\ lastEvent.op = "resize"
    /\ lifecycle = "unmounted"
    /\ regens >= 2
    /\ <<lastDims.width, lastDims.height>> # <<width, height>>

\* C7: a reveal that no regeneration interrupts completes; once settled the
\* fixed set holds every cell index, no timer is left and no tick changes a
\* cell any more.
C7_RevealCompletes ==
    /\ (phase \in {"scrambling", "revealing"}) ~> (phase = "settled")
    /\ [](phase = "settled" =>
             /\ fixedIndices = 0 .. (Len(items) - 1)
             /\ Cardinality(fixedIndices) = Len(items)
             /\ activeIntervals = {} /\ scrambleInterval = 0
             /\ activeTimeouts = {})
    /\ [][(phase = "settled" /\ phase' = "settled") =>
             (items' = items \/ lastEvent'.op = "click")]_vars

C7_Witness ==
    /\ phase = "settled"
    /\ Len(items) >= 2
    /\ ticks >= 1
    /\ clicks >= 1

\* C8: whatever the regenerations, two in a row included, at most one
\* scramble interval and at most one reveal timeout are active, and they are
\* the ones the component holds the handles of.
C8_SingleTimers ==
    /\ Cardinality(activeIntervals) <= 1
    /\ Cardinality(activeTimeouts) <= 1
    /\ \A t \in activeIntervals : t.handle = scrambleInterval
    /\ \A t \in activeTimeouts : t.handle = revealTimeout

\* A second regeneration before any tick of the first cycle.
C8_Witness ==
    /\ regens >= 2
    /\ ticks = 0
    /\ phase = "scrambling"
    /\ Cardinality(activeIntervals) = 1

====
